---- MODULE Spec2Model ----
(***************************************************************************)
(* Model of TalkingGaussian/scripts/eval_all.py: the evaluation            *)
(* orchestrator that runs up to four metric families (frame, niqe, fid,    *)
(* lse) as subprocesses, scrapes their stdout with regular expressions     *)
(* and writes a JSON summary.                                              *)
(*                                                                         *)
(* Texts (stdout, file contents, regex tokens) are sequences of            *)
(* one-character strings.  Floats are exact decimals [m * 10^e].           *)
(***************************************************************************)
EXTENDS Integers, Sequences, FiniteSets, TLC

\* ------------------------------------------------------------------------
\* Bounds of the model (not program constants)
\* ------------------------------------------------------------------------
\* largest subprocess return code drawn by the environment
MaxRet == 2
\* number of frame files a work directory can hold
MaxFrames == 2
\* direct _extract_frames invocations explored by the extraction harness
MaxExtractCalls == 3
\* pieces of arbitrary text before / after a result line in the parse harness
MaxPre == 3
MaxPost == 1

\* ------------------------------------------------------------------------
\* Characters
\* ------------------------------------------------------------------------
\* the printable ASCII characters in code-point order, from 32 (space);
\* the grave accent (96), which no text of the model holds, by its name
Ascii ==
  <<" ", "!", "\"", "#", "$", "%", "&", "'", "(", ")", "*", "+", ",", "-",
    ".", "/", "0", "1", "2", "3", "4", "5", "6", "7", "8", "9", ":", ";",
    "<", "=", ">", "?", "@", "A", "B", "C", "D", "E", "F", "G", "H", "I",
    "J", "K", "L", "M", "N", "O", "P", "Q", "R", "S", "T", "U", "V", "W",
    "X", "Y", "Z", "[", "\\", "]", "^", "_", "grave", "a", "b", "c", "d", "e",
    "f", "g", "h", "i", "j", "k", "l", "m", "n", "o", "p", "q", "r", "s",
    "t", "u", "v", "w", "x", "y", "z", "{", "|", "}", "~">>

\* code point of a character
Ord(c) ==
  IF c = "\n" THEN 10
  ELSE IF c = "\t" THEN 9
  ELSE 31 + (CHOOSE i \in 1..95 : Ascii[i] = c)

Digits == {"0", "1", "2", "3", "4", "5", "6", "7", "8", "9"}
DigitVal(c) == Ord(c) - 48

\* regex \s
Whitespace == {" ", "\t", "\n"}

\* regex character class [0-9.+-eE]: the range '0'-'9' (48..57), the dot,
\* the RANGE from '+' (43) to 'e' (101) -- the '-' between them is a range
\* operator -- and 'E'
InRanges(c, o) ==
  \/ o \in 48..57
  \/ c = "."
  \/ o \in 43..101
  \/ c = "E"

InClass(c) == InRanges(c, Ord(c))

\* ------------------------------------------------------------------------
\* re.search for the metric patterns
\*   strict:  LIT1 \s* LIT2 \s* ... = \s* ([0-9.+-eE]+)
\*   lazy:    LIT .*? = \s* ([0-9.+-eE]+)
\* ------------------------------------------------------------------------
PSNR   == <<"P","S","N","R">>
SSIM   == <<"S","S","I","M">>
LPIPS  == <<"L","P","I","P","S">>
NIQE   == <<"N","I","Q","E">>
PYIQA  == <<"(","p","y","i","q","a",")">>
FID    == <<"F","I","D">>
LSE_C  == <<"L","S","E","-","C">>
LSE_D  == <<"L","S","E","-","D">>

PatPSNR  == [lits |-> <<PSNR>>,        lazy |-> FALSE]
PatSSIM  == [lits |-> <<SSIM>>,        lazy |-> FALSE]
PatLPIPS == [lits |-> <<LPIPS>>,       lazy |-> TRUE]
PatNIQE  == [lits |-> <<NIQE, PYIQA>>, lazy |-> FALSE]
PatFID   == [lits |-> <<FID>>,         lazy |-> TRUE]
PatLSE_C == [lits |-> <<LSE_C>>,       lazy |-> TRUE]
PatLSE_D == [lits |-> <<LSE_D>>,       lazy |-> TRUE]

SetMin(S) == CHOOSE x \in S : \A y \in S : x <= y

\* the least element of S, or d when S is empty
MinOr(S, d) == IF S = {} THEN d ELSE SetMin(S)

StartsWith(text, p, lit) ==
  /\ p >= 1
  /\ p + Len(lit) - 1 <= Len(text)
  /\ \A k \in 1..Len(lit) : text[p + k - 1] = lit[k]

\* greedy \s* from position p: the position after the run of whitespace
SkipWs(text, p) ==
  MinOr({q \in p..Len(text) : text[q] \notin Whitespace}, Len(text) + 1)

\* greedy ([0-9.+-eE]+) from position p: the maximal run of class
\* characters, <<>> when there is none (the group needs one at least)
TokenAt(text, p) ==
  SubSeq(text, p,
         MinOr({q \in p..Len(text) : ~InClass(text[q])}, Len(text) + 1) - 1)

\* the group captured when the search fails
NoMatch == <<>>

\* = \s* ([0-9.+-eE]+) with the '=' at position j
AfterEq(text, j) == TokenAt(text, SkipWs(text, j + 1))

\* literals each followed by \s*; the position reached, 0 on mismatch
RECURSIVE AfterLits(_, _, _)
AfterLits(text, p, lits) ==
  IF lits = <<>> THEN p
  ELSE IF StartsWith(text, p, Head(lits))
       THEN AfterLits(text, SkipWs(text, p + Len(Head(lits))), Tail(lits))
       ELSE 0

\* the first group that matched among the candidates (in index order)
FirstMatch(groups) ==
  IF \E i \in DOMAIN groups : groups[i] # NoMatch
  THEN groups[SetMin({i \in DOMAIN groups : groups[i] # NoMatch})]
  ELSE NoMatch

\* the pattern's tail at position p, where the '=' must be
EqAt(text, p) ==
  IF p = 0 \/ p > Len(text) THEN NoMatch
  ELSE IF text[p] # "=" THEN NoMatch
  ELSE AfterEq(text, p)

\* .*? grows one character at a time ('.' does not match a newline) until
\* the rest of the pattern matches: the groups at the '=' signs that .*?
\* can reach from p, nearest first
LazyFrom(text, p) ==
  FirstMatch([k \in 1..(Len(text) + 1 - p) |->
                IF /\ text[p + k - 1] = "="
                   /\ \A r \in p..(p + k - 2) : text[r] # "\n"
                THEN AfterEq(text, p + k - 1)
                ELSE NoMatch])

MatchAt(pat, text, i) ==
  IF pat.lazy
  THEN IF StartsWith(text, i, pat.lits[1])
       THEN LazyFrom(text, i + Len(pat.lits[1]))
       ELSE NoMatch
  ELSE EqAt(text, AfterLits(text, i, pat.lits))

\* re.search(pattern, text): group(1) of the leftmost match, or NoMatch
ReSearch(pat, text) ==
  FirstMatch([i \in 1..Len(text) |-> MatchAt(pat, text, i)])

\* ------------------------------------------------------------------------
\* float(token)
\* ------------------------------------------------------------------------
None       == [k |-> "none",  m |-> 0, e |-> 0]
ValueError == [k |-> "error", m |-> 0, e |-> 0]
NaN        == [k |-> "nan",   m |-> 0, e |-> 0]
Inf(neg)   == [k |-> "inf",   m |-> IF neg THEN -1 ELSE 1, e |-> 0]

\* the finite value m * 10^e, m without trailing zeros
RECURSIVE Float(_, _)
Float(m, e) ==
  IF m = 0 THEN [k |-> "float", m |-> 0, e |-> 0]
  ELSE IF m % 10 = 0 THEN Float(m \div 10, e + 1)
  ELSE [k |-> "float", m |-> m, e |-> e]

ToUpper(c) == IF Ord(c) \in 97..122 THEN Ascii[Ord(c) - 63] ELSE c

\* digit (_? digit)*
IsDigitPart(s) ==
  /\ Len(s) > 0
  /\ s[1] \in Digits
  /\ s[Len(s)] \in Digits
  /\ \A i \in 1..Len(s) :
       \/ s[i] \in Digits
       \/ s[i] = "_" /\ s[i - 1] \in Digits /\ s[i + 1] \in Digits

RECURSIVE NatOf(_)
NatOf(s) ==
  IF s = <<>> THEN 0
  ELSE IF s[Len(s)] = "_" THEN NatOf(SubSeq(s, 1, Len(s) - 1))
  ELSE 10 * NatOf(SubSeq(s, 1, Len(s) - 1)) + DigitVal(s[Len(s)])

NumDigits(s) == Cardinality({i \in 1..Len(s) : s[i] \in Digits})

\* the first position of s holding a character of S, 0 when there is none
FirstIndex(s, S) == MinOr({i \in 1..Len(s) : s[i] \in S}, 0)

Signed(s)   == Len(s) > 0 /\ s[1] \in {"+", "-"}
Negative(s) == Len(s) > 0 /\ s[1] = "-"
Unsigned(s) == IF Signed(s) THEN Tail(s) ELSE s

\* Python float(str) on a token without surrounding whitespace:
\*   [sign] (digits [. [digits]] | . digits) [(e|E) [sign] digits]
\*   [sign] (inf | infinity | nan), any case
\* anything else raises ValueError.  Rounding to binary64 and exponent
\* overflow do not occur for the short tokens of the model.

\* integer part ip, fraction part fp, decimal exponent ev
FloatParts(neg, ip, fp, ev) ==
  IF /\ ip = <<>> \/ IsDigitPart(ip)
     /\ fp = <<>> \/ IsDigitPart(fp)
     /\ ip # <<>> \/ fp # <<>>
  THEN Float((IF neg THEN -1 ELSE 1) * NatOf(ip \o fp), ev - NumDigits(fp))
  ELSE ValueError

FloatMantissa(neg, mant, dot, ev) ==
  IF dot = 0
  THEN FloatParts(neg, mant, <<>>, ev)
  ELSE FloatParts(neg, SubSeq(mant, 1, dot - 1),
                  SubSeq(mant, dot + 1, Len(mant)), ev)

FloatExponent(neg, mant, expo) ==
  IF IsDigitPart(Unsigned(expo))
  THEN FloatMantissa(neg, mant, FirstIndex(mant, {"."}),
                     (IF Negative(expo) THEN -1 ELSE 1) * NatOf(Unsigned(expo)))
  ELSE ValueError

FloatBody(neg, body, up, ePos) ==
  IF up \in {<<"I","N","F">>, <<"I","N","F","I","N","I","T","Y">>}
    THEN Inf(neg)
  ELSE IF up = <<"N","A","N">> THEN NaN
  ELSE IF ePos = 0
    THEN FloatMantissa(neg, body, FirstIndex(body, {"."}), 0)
  ELSE FloatExponent(neg, SubSeq(body, 1, ePos - 1),
                     SubSeq(body, ePos + 1, Len(body)))

FloatUnsigned(neg, body) ==
  FloatBody(neg, body, [i \in 1..Len(body) |-> ToUpper(body[i])],
            FirstIndex(body, {"e", "E"}))

ParseFloat(tok) == FloatUnsigned(Negative(tok), Unsigned(tok))

\*   m = re.search(pattern, text)
\*   if m:
\*       val = float(m.group(1))
\* starting from val = None.  The result is None, a float, or ValueError
\* when float() raises.
FloatOfGroup(tok) == IF tok = NoMatch THEN None ELSE ParseFloat(tok)

ParseText(pat, text) == FloatOfGroup(ReSearch(pat, text))

\* the same under the guard `if out:`
ParseMetric(pat, text) ==
  IF text = <<>> THEN None ELSE ParseText(pat, text)

Raises(v) == v.k = "error"

\* ------------------------------------------------------------------------
\* State
\* ------------------------------------------------------------------------
VARIABLES
  args,         \* argparse namespace (the Run Request)
  pc,           \* position in main(): the next step, "done" or "exited"
  run,          \* run_frame / run_niqe / run_fid / run_lse
  results,      \* the Summary Record: family -> entry
  ret,          \* local `ret` of main (-1: not yet assigned)
  out,          \* local `out` of main
  calls,        \* subprocesses invoked so far, in order
  exit,         \* how the process ended
  pred_dir,     \* <work_dir>/pred_frames: frame file -> producer, -1 no file
  gt_dir,       \* <work_dir>/gt_frames
  scores_file,  \* <syncnet_dir>/all_scores.txt
  scores_read,  \* TRUE once main has opened all_scores.txt
  json_file,    \* the file at --json-out
  probe         \* inputs and result of the parse harness

vars == <<args, pc, run, results, ret, out, calls, exit, pred_dir, gt_dir,
          scores_file, scores_read, json_file, probe>>

Families == {"frame", "niqe", "fid", "lse"}

\* a path argument: not given (None), given empty, or given
PathValues == {"None", "", "path"}
IsNone(p)  == p = "None"
\* Python truthiness of an optional string
Truthy(p)  == p # "None" /\ p # ""

ArgsSpace ==
  [frame : BOOLEAN, niqe : BOOLEAN, fid : BOOLEAN, lse : BOOLEAN,
   all : BOOLEAN,
   pred_video : PathValues, gt_video : PathValues,
   gen_videos_dir : PathValues,
   lpips : BOOLEAN, setup_lse : BOOLEAN, json_out : BOOLEAN]

\* ------------------------------------------------------------------------
\* Files
\* ------------------------------------------------------------------------
NoFrame  == -1
Stale    == 0
EmptyDir == [f \in 1..MaxFrames |-> NoFrame]
StaleDir == [f \in 1..MaxFrames |-> Stale]
\* os.path.exists(dir) (an existing empty directory behaves as a missing one)
DirExists(dir) == \E f \in 1..MaxFrames : dir[f] # NoFrame
\* shutil.rmtree(dir)
Rmtree(dir) == EmptyDir

\* evaluation/extract_frames.py VIDEO OUT_DIR: writes the n frames of the
\* video as files 1..n of OUT_DIR.  Whether it removes other files found
\* there is not fixed by eval_all.py: cleans is the environment's choice.
ExtractFramesScript(dir, n, stamp, cleans) ==
  [f \in 1..MaxFrames |->
     IF f <= n THEN stamp ELSE IF cleans THEN NoFrame ELSE dir[f]]

NoFile == [exists |-> FALSE, text |-> <<>>]
TextFile(t) == [exists |-> TRUE, text |-> t]

NoJson      == [state |-> "absent",  content |-> <<>>]
StaleJson   == [state |-> "stale",   content |-> <<>>]
\* json.dump(results, f)
JsonDump(r) == [state |-> "written", content |-> r]

\* ------------------------------------------------------------------------
\* Process exits
\* ------------------------------------------------------------------------
Running         == [kind |-> "running",    code |-> 0, msg |-> ""]
ExitOk          == [kind |-> "ok",         code |-> 0, msg |-> ""]
\* raise SystemExit(ret)
SystemExitCode(r) == [kind |-> "subprocess", code |-> r, msg |-> ""]
\* raise SystemExit("..."): the message goes to stderr, exit status 1
SystemExitMsg(m)  == [kind |-> "config",     code |-> 1, msg |-> m]
\* uncaught ValueError from float(): traceback, exit status 1
Uncaught          == [kind |-> "exception",  code |-> 1, msg |-> "ValueError"]

\* ------------------------------------------------------------------------
\* Subprocess outputs the environment can produce
\* ------------------------------------------------------------------------
Eq == <<" ", "=", " ">>
NL == <<"\n">>
CleanFid == <<" ","(","c","l","e","a","n","-","f","i","d",")">>

FrameGood  == PSNR \o Eq \o <<"3","1",".","2">> \o NL
              \o SSIM \o Eq \o <<"0",".","9","1">> \o NL
FrameLpips == FrameGood \o LPIPS \o Eq \o <<"0",".","1">> \o NL
\* "PSNR = 31.2, SSIM = 0.91"
FrameComma == PSNR \o Eq \o <<"3","1",".","2",","," ">>
              \o SSIM \o Eq \o <<"0",".","9","1">>
FrameOuts  == {FrameGood, FrameLpips, FrameComma}

NiqeGood   == NIQE \o <<" ">> \o PYIQA \o Eq \o <<"5",".","1">> \o NL
\* "NIQE (pyiqa) = ?"
NiqeBad    == NIQE \o <<" ">> \o PYIQA \o Eq \o <<"?">> \o NL
NiqeOuts   == {<<>>, NiqeGood, NiqeBad}

FidGood    == FID \o CleanFid \o Eq \o <<"1","2",".","3","4","5">> \o NL
\* "FID (clean-fid) = 12.345..."
FidDots    == FID \o CleanFid \o Eq \o <<"1","2",".","3","4","5",".",".",".">>
FidOuts    == {<<"o","k">>, FidGood, FidDots}

LseBoth    == LSE_C \o Eq \o <<"7",".","1">> \o NL
              \o LSE_D \o Eq \o <<"6",".","2">> \o NL
LseOnlyC   == LSE_C \o Eq \o <<"7",".","1">> \o NL
LseOuts    == {<<>>, LseBoth, LseOnlyC}

ScoresBoth  == LSE_C \o Eq \o <<"8",".","1">> \o NL
               \o LSE_D \o Eq \o <<"9",".","2">> \o NL
ScoresOnlyD == LSE_D \o Eq \o <<"9",".","2">> \o NL
ScoresFiles == {NoFile, TextFile(ScoresBoth), TextFile(ScoresOnlyD)}

RetCodes == 0..MaxRet

\* the texts main can meet and the patterns it applies to them
AllTexts == FrameOuts \cup NiqeOuts \cup FidOuts \cup LseOuts
            \cup {f.text : f \in ScoresFiles}
AllPats  == {PatPSNR, PatSSIM, PatLPIPS, PatNIQE, PatFID, PatLSE_C, PatLSE_D}

\* re.search + float of every pattern on every one of these texts
Parsed == [p \in AllPats |-> [t \in AllTexts |-> ParseText(p, t)]]

\* the value main gets from a subprocess's stdout (under `if out:`)
OutValue(pat, o) == IF o = <<>> THEN None ELSE Parsed[pat][o]
\* the value main gets from the text of all_scores.txt
FileValue(pat, f) == Parsed[pat][f.text]

\* ------------------------------------------------------------------------
\* Init: a Run Request, the work directory and files left by earlier runs
\* ------------------------------------------------------------------------
ProbeIdle == [pc |-> "idle", pat |-> PatPSNR, pre |-> <<>>, res |-> <<>>,
              post |-> <<>>, val |-> None]

Init ==
  /\ args \in ArgsSpace
  /\ pc = "resolve"
  /\ run = [frame |-> FALSE, niqe |-> FALSE, fid |-> FALSE, lse |-> FALSE]
  /\ results = <<>>
  /\ ret = -1
  /\ out = <<>>
  /\ calls = <<>>
  /\ exit = Running
  /\ pred_dir \in {EmptyDir, StaleDir}
  /\ gt_dir \in {EmptyDir, StaleDir}
  /\ scores_file = NoFile
  /\ scores_read = FALSE
  /\ json_file \in IF args.json_out THEN {NoJson, StaleJson} ELSE {NoJson}
  /\ probe = ProbeIdle

\* ------------------------------------------------------------------------
\* main()
\* ------------------------------------------------------------------------
\* lines 146-163
\* variant: the explicit flags are ignored, the inputs always decide
ResolveRunInferOnly(a) ==
  [frame |-> ~IsNone(a.pred_video) /\ ~IsNone(a.gt_video),
   niqe  |-> ~IsNone(a.pred_video),
   fid   |-> ~IsNone(a.pred_video) /\ ~IsNone(a.gt_video),
   lse   |-> ~IsNone(a.gen_videos_dir)]

ResolveRun(a) ==
  IF a.all \/ ~(a.frame \/ a.niqe \/ a.fid \/ a.lse)
  THEN [frame |-> ~IsNone(a.pred_video) /\ ~IsNone(a.gt_video),
        niqe  |-> ~IsNone(a.pred_video),
        fid   |-> ~IsNone(a.pred_video) /\ ~IsNone(a.gt_video),
        lse   |-> ~IsNone(a.gen_videos_dir)]
  ELSE [frame |-> a.frame, niqe |-> a.niqe, fid |-> a.fid, lse |-> a.lse]

Resolve ==
  /\ pc = "resolve"
  /\ run' = ResolveRun(args)
  /\ pc' = "frame"
  /\ UNCHANGED <<args, results, ret, out, calls, exit, pred_dir, gt_dir,
                 scores_file, scores_read, json_file, probe>>

\* the process ends with x: nothing after the raise runs
Die(x) ==
  /\ pc' = "exited"
  /\ exit' = x

\* results[key] = entry
Put(r, key, entry) == (key :> entry) @@ r

\* a subprocess invocation and the code it returned
Call(name, r) == [name |-> name, ret |-> r]

\* variant: the allow_fail test inverted
AbortsWhenAllowed(r, allow_fail) == r # 0 /\ allow_fail

\* _run / _run_with_output: `if ret != 0 and not allow_fail: raise SystemExit(ret)`
Aborts(r, allow_fail) == r # 0 /\ ~allow_fail

\* lines 166-200
FrameEntry(a, text) ==
  [lpips |-> a.lpips,
   PSNR  |-> OutValue(PatPSNR, text),
   SSIM  |-> OutValue(PatSSIM, text),
   LPIPS |-> IF a.lpips THEN OutValue(PatLPIPS, text) ELSE None]

FrameMetrics ==
  /\ pc = "frame"
  /\ IF ~run.frame
     THEN /\ pc' = "extract_pred"
          /\ UNCHANGED <<results, ret, out, calls, exit>>
     ELSE IF ~Truthy(args.pred_video) \/ ~Truthy(args.gt_video)
     THEN /\ Die(SystemExitMsg("--frame requires --pred-video and --gt-video"))
          /\ UNCHANGED <<results, ret, out, calls>>
     ELSE \E r \in RetCodes, o \in FrameOuts :
          /\ calls' = Append(calls, Call("eval_frame_metrics", r))
          /\ IF Aborts(r, FALSE)
             THEN /\ Die(SystemExitCode(r))
                  /\ UNCHANGED <<results, ret, out>>
             ELSE /\ ret' = r
                  /\ out' = o
                  /\ LET e == FrameEntry(args, o)
                     IN  IF Raises(e.PSNR) \/ Raises(e.SSIM) \/ Raises(e.LPIPS)
                         THEN Die(Uncaught) /\ UNCHANGED results
                         ELSE /\ results' = Put(results, "frame", e)
                              /\ pc' = "extract_pred"
                              /\ UNCHANGED exit
  /\ UNCHANGED <<args, run, pred_dir, gt_dir, scores_file, scores_read,
                 json_file, probe>>

\* variant: the stale directory is kept
PrepareDirKeep(dir) == dir

\* lines 208-209 and 237-238:
\*   if os.path.exists(dir): shutil.rmtree(dir)
PrepareDir(dir) == IF DirExists(dir) THEN Rmtree(dir) ELSE dir

\* _extract_frames(py, video, out_dir, fps): runs the extraction script on
\* out_dir as it is
ExtractFrames(dir, n, stamp, cleans) ==
  ExtractFramesScript(dir, n, stamp, cleans)

\* lines 203-210
ExtractPred ==
  /\ pc = "extract_pred"
  /\ IF ~(run.niqe \/ run.fid)
     THEN /\ pc' = "niqe"
          /\ UNCHANGED <<calls, exit, pred_dir>>
     ELSE IF ~Truthy(args.pred_video)
     THEN /\ Die(SystemExitMsg("--niqe/--fid require --pred-video"))
          /\ UNCHANGED <<calls, pred_dir>>
     ELSE \E r \in RetCodes, n \in 1..MaxFrames, cleans \in BOOLEAN :
          /\ calls' = Append(calls, Call("extract_frames:pred", r))
          /\ pred_dir' = ExtractFrames(PrepareDir(pred_dir), n,
                                       Len(calls) + 1, cleans)
          /\ IF Aborts(r, FALSE)
             THEN Die(SystemExitCode(r))
             ELSE pc' = "niqe" /\ UNCHANGED exit
  /\ UNCHANGED <<args, run, results, ret, out, gt_dir, scores_file,
                 scores_read, json_file, probe>>

\* variant: a failed NIQE run leaves no entry
RecordNiqeIfOk(r, rc, v) ==
  IF rc = 0 THEN (("niqe" :> [ok |-> TRUE, NIQE |-> v]) @@ r) ELSE r

\* line 224
RecordNiqe(r, rc, v) == Put(r, "niqe", [ok |-> rc = 0, NIQE |-> v])

\* lines 212-230
Niqe ==
  /\ pc = "niqe"
  /\ IF ~run.niqe
     THEN /\ pc' = "extract_gt"
          /\ UNCHANGED <<results, ret, out, calls, exit>>
     ELSE \E r \in RetCodes, o \in NiqeOuts :
          /\ calls' = Append(calls, Call("eval_niqe", r))
          /\ IF Aborts(r, TRUE)
             THEN /\ Die(SystemExitCode(r))
                  /\ UNCHANGED <<results, ret, out>>
             ELSE /\ ret' = r
                  /\ out' = o
                  /\ LET v == OutValue(PatNIQE, o)
                     IN  IF Raises(v)
                         THEN Die(Uncaught) /\ UNCHANGED results
                         ELSE /\ results' = RecordNiqe(results, r, v)
                              /\ pc' = "extract_gt"
                              /\ UNCHANGED exit
  /\ UNCHANGED <<args, run, pred_dir, gt_dir, scores_file, scores_read,
                 json_file, probe>>

\* lines 233-239
ExtractGt ==
  /\ pc = "extract_gt"
  /\ IF ~run.fid
     THEN /\ pc' = "lse_setup"
          /\ UNCHANGED <<calls, exit, gt_dir>>
     ELSE IF ~Truthy(args.gt_video)
     THEN /\ Die(SystemExitMsg("--fid requires --gt-video"))
          /\ UNCHANGED <<calls, gt_dir>>
     ELSE \E r \in RetCodes, n \in 1..MaxFrames, cleans \in BOOLEAN :
          /\ calls' = Append(calls, Call("extract_frames:gt", r))
          /\ gt_dir' = ExtractFrames(PrepareDir(gt_dir), n,
                                     Len(calls) + 1, cleans)
          /\ IF Aborts(r, FALSE)
             THEN Die(SystemExitCode(r))
             ELSE pc' = "fid" /\ UNCHANGED exit
  /\ UNCHANGED <<args, run, results, ret, out, pred_dir, scores_file,
                 scores_read, json_file, probe>>

\* lines 241-261
Fid ==
  /\ pc = "fid"
  /\ \E r \in RetCodes, o \in FidOuts :
       /\ calls' = Append(calls, Call("eval_fid", r))
       /\ IF Aborts(r, FALSE)
          THEN /\ Die(SystemExitCode(r))
               /\ UNCHANGED <<results, ret, out>>
          ELSE /\ ret' = r
               /\ out' = o
               /\ LET v == OutValue(PatFID, o)
                  IN  IF Raises(v)
                      THEN Die(Uncaught) /\ UNCHANGED results
                      ELSE /\ results' = Put(results, "fid", [FID |-> v])
                           /\ pc' = "lse_setup"
                           /\ UNCHANGED exit
  /\ UNCHANGED <<args, run, pred_dir, gt_dir, scores_file, scores_read,
                 json_file, probe>>

\* lines 264-268
LseSetup ==
  /\ pc = "lse_setup"
  /\ IF ~run.lse
     THEN /\ pc' = "json"
          /\ UNCHANGED <<calls, exit>>
     ELSE IF ~Truthy(args.gen_videos_dir)
     THEN /\ Die(SystemExitMsg("--lse requires --gen-videos-dir"))
          /\ UNCHANGED calls
     ELSE IF ~args.setup_lse
     THEN /\ pc' = "lse"
          /\ UNCHANGED <<calls, exit>>
     ELSE \E r \in RetCodes :
          /\ calls' = Append(calls, Call("setup_lse", r))
          /\ IF Aborts(r, FALSE)
             THEN Die(SystemExitCode(r))
             ELSE pc' = "lse" /\ UNCHANGED exit
  /\ UNCHANGED <<args, run, results, ret, out, pred_dir, gt_dir,
                 scores_file, scores_read, json_file, probe>>

\* lines 283-293: LSE-C / LSE-D from stdout
LseStdout(o) == [c |-> OutValue(PatLSE_C, o), d |-> OutValue(PatLSE_D, o)]

\* variant: the file, when present, overrides stdout
LseFallbackOverrides(v, f) ==
  IF f.exists
  THEN [c    |-> FileValue(PatLSE_C, f),
        d    |-> FileValue(PatLSE_D, f),
        read |-> TRUE]
  ELSE [c |-> v.c, d |-> v.d, read |-> FALSE]

\* lines 295-307: all_scores.txt fills what stdout did not give
LseFallback(v, f) ==
  IF (v.c = None \/ v.d = None) /\ f.exists
  THEN [c    |-> IF v.c = None THEN FileValue(PatLSE_C, f) ELSE v.c,
        d    |-> IF v.d = None THEN FileValue(PatLSE_D, f) ELSE v.d,
        read |-> TRUE]
  ELSE [c |-> v.c, d |-> v.d, read |-> FALSE]

\* lines 270-315
Lse ==
  /\ pc = "lse"
  /\ \E r \in RetCodes, o \in LseOuts, f \in ScoresFiles :
       /\ calls' = Append(calls, Call("eval_lse", r))
       /\ scores_file' = f
       /\ IF Aborts(r, TRUE)
          THEN /\ Die(SystemExitCode(r))
               /\ UNCHANGED <<results, ret, out, scores_read>>
          ELSE /\ ret' = r
               /\ out' = o
               /\ LET v == LseStdout(o)
                      w == LseFallback(v, f)
                  IN  IF Raises(v.c) \/ Raises(v.d)
                      THEN /\ Die(Uncaught)
                           /\ UNCHANGED <<results, scores_read>>
                      ELSE /\ scores_read' = w.read
                           /\ IF Raises(w.c) \/ Raises(w.d)
                              THEN Die(Uncaught) /\ UNCHANGED results
                              ELSE /\ results' = Put(results, "lse",
                                          [LSE_C |-> w.c, LSE_D |-> w.d])
                                   /\ pc' = "json"
                                   /\ UNCHANGED exit
  /\ UNCHANGED <<args, run, pred_dir, gt_dir, json_file, probe>>

\* lines 317-321, then the normal end of the process
JsonOut ==
  /\ pc = "json"
  /\ json_file' = IF args.json_out THEN JsonDump(results) ELSE json_file
  /\ pc' = "done"
  /\ exit' = ExitOk
  /\ UNCHANGED <<args, run, results, ret, out, calls, pred_dir, gt_dir,
                 scores_file, scores_read, probe>>

Next ==
  \/ Resolve
  \/ FrameMetrics
  \/ ExtractPred
  \/ Niqe
  \/ ExtractGt
  \/ Fid
  \/ LseSetup
  \/ Lse
  \/ JsonOut

Spec == Init /\ [][Next]_vars

\* ------------------------------------------------------------------------
\* Parse harness: re.search + float on composed texts
\* ------------------------------------------------------------------------
IdleArgs ==
  [frame |-> FALSE, niqe |-> FALSE, fid |-> FALSE, lse |-> FALSE,
   all |-> FALSE, pred_video |-> "None", gt_video |-> "None",
   gen_videos_dir |-> "None", lpips |-> FALSE, setup_lse |-> FALSE,
   json_out |-> FALSE]

HarnessPats == {PatPSNR, PatFID}

\* the pieces arbitrary text is composed of: the metric's name, '=',
\* a newline, a digit, a dot, a character outside the class
Pieces(pat) ==
  {pat.lits[1], <<"=">>, <<"\n">>, <<"1">>, <<".">>, <<"x">>}

RECURSIVE Flatten(_)
Flatten(ps) == IF ps = <<>> THEN <<>> ELSE Head(ps) \o Flatten(Tail(ps))

Texts(pat, n) ==
  {Flatten(ps) : ps \in UNION {[1..k -> Pieces(pat)] : k \in 0..n}}

ResultTokens == {<<"1", ".", "5">>, <<"2">>}
\* "NAME = 1.5", "NAME = 2", or no result line
ResultLines(pat) == {<<>>} \cup {pat.lits[1] \o Eq \o t : t \in ResultTokens}

ProbeText(q) == q.pre \o q.res \o q.post

InitParse ==
  /\ \E p \in HarnessPats :
       \E a \in Texts(p, MaxPre), r \in ResultLines(p), b \in Texts(p, MaxPost) :
         probe = [pc |-> "ready", pat |-> p, pre |-> a, res |-> r,
                  post |-> b, val |-> None]
  /\ args = IdleArgs
  /\ pc = "harness"
  /\ run = [frame |-> FALSE, niqe |-> FALSE, fid |-> FALSE, lse |-> FALSE]
  /\ results = <<>>
  /\ ret = -1
  /\ out = <<>>
  /\ calls = <<>>
  /\ exit = Running
  /\ pred_dir = EmptyDir
  /\ gt_dir = EmptyDir
  /\ scores_file = NoFile
  /\ scores_read = FALSE
  /\ json_file = NoJson

ParseProbe ==
  /\ probe.pc = "ready"
  /\ probe' = [probe EXCEPT !.pc = "parsed",
                            !.val = ParseMetric(probe.pat, ProbeText(probe))]
  /\ UNCHANGED <<args, pc, run, results, ret, out, calls, exit, pred_dir,
                 gt_dir, scores_file, scores_read, json_file>>

NextParse == ParseProbe

SpecParse == InitParse /\ [][NextParse]_vars

\* ------------------------------------------------------------------------
\* Library use: main() runs, and direct calls of _extract_frames
\* ------------------------------------------------------------------------
PriorDirs == [1..MaxFrames -> {NoFrame, Stale}]

InitDirect ==
  /\ args = IdleArgs
  /\ pc = "lib"
  /\ run = [frame |-> FALSE, niqe |-> FALSE, fid |-> FALSE, lse |-> FALSE]
  /\ results = <<>>
  /\ ret = -1
  /\ out = <<>>
  /\ calls = <<>>
  /\ exit = Running
  /\ pred_dir \in PriorDirs
  /\ gt_dir \in PriorDirs
  /\ scores_file = NoFile
  /\ scores_read = FALSE
  /\ json_file = NoJson
  /\ probe = ProbeIdle

\* _extract_frames(py, video, out_dir) called by itself, lines 50-54
ExtractFramesCall ==
  /\ pc = "lib"
  /\ Len(calls) < MaxExtractCalls
  /\ \E target \in {"pred", "gt"}, r \in RetCodes, n \in 1..MaxFrames,
        cleans \in BOOLEAN :
       /\ IF target = "pred"
          THEN /\ calls' = Append(calls, Call("extract_frames:pred", r))
               /\ pred_dir' = ExtractFrames(pred_dir, n, Len(calls) + 1, cleans)
               /\ UNCHANGED gt_dir
          ELSE /\ calls' = Append(calls, Call("extract_frames:gt", r))
               /\ gt_dir' = ExtractFrames(gt_dir, n, Len(calls) + 1, cleans)
               /\ UNCHANGED pred_dir
       /\ IF Aborts(r, FALSE)
          THEN Die(SystemExitCode(r))
          ELSE UNCHANGED <<pc, exit>>
  /\ UNCHANGED <<args, run, results, ret, out, scores_file, scores_read,
                 json_file, probe>>

NextLib == Next \/ ExtractFramesCall

SpecLib == (Init \/ InitDirect) /\ [][NextLib]_vars

\* ------------------------------------------------------------------------
\* Vocabulary of the properties
\* ------------------------------------------------------------------------
Ended == pc \in {"done", "exited"}

Invoked(name) == \E i \in DOMAIN calls : calls[i].name = name

LastCall == calls[Len(calls)]

MetricScript ==
  [frame |-> "eval_frame_metrics", niqe |-> "eval_niqe",
   fid |-> "eval_fid", lse |-> "eval_lse"]

\* the families whose metric subprocess was started
Attempted == {f \in Families : Invoked(MetricScript[f])}

\* a required input of the family is missing
MissingInput(a, f) ==
  CASE f = "frame" -> ~Truthy(a.pred_video) \/ ~Truthy(a.gt_video)
    [] f = "niqe"  -> ~Truthy(a.pred_video)
    [] f = "fid"   -> ~Truthy(a.pred_video) \/ ~Truthy(a.gt_video)
    [] f = "lse"   -> ~Truthy(a.gen_videos_dir)

\* the family's flag is passed and one of its inputs is missing
ExplicitMissing(a) == \E f \in Families : a[f] /\ MissingInput(a, f)

\* text contains sub as a contiguous piece
Contains(text, sub) ==
  \E i \in 1..(Len(text) - Len(sub) + 1) : StartsWith(text, i, sub)

PsnrLine == PSNR \o Eq \o <<"3","1",".","2">>
SsimLine == SSIM \o Eq \o <<"0",".","9","1">>
\* the frame outputs that contain `PSNR = 31.2` and `SSIM = 0.91`
FrameHasResult ==
  [o \in FrameOuts |-> Contains(o, PsnrLine) /\ Contains(o, SsimLine)]

\* ------------------------------------------------------------------------
\* Properties
\* ------------------------------------------------------------------------

\* C1 (as claimed): a run that ends with a configuration error (SystemExit
\* with a missing-input message) has invoked no subprocess at all.
C1_ConfigErrorBeforeAnySubprocess ==
  exit.kind = "config" => calls = <<>>

\* C2 (as claimed): when a family's flag is passed and an input that family
\* requires is missing, the run never completes normally, whatever the
\* other flags are (--all included).
C2_ExplicitMissingNeverCompletes ==
  ExplicitMissing(args) => pc # "done"

\* C2 (amended): when --all is NOT passed, a family whose flag is passed
\* while one of its inputs is missing is never attempted and the run never
\* completes normally: if it has ended, it ended with a non-zero status.
C2_ExplicitMissingFatalWithoutAll ==
  (~args.all /\ ExplicitMissing(args)) =>
     /\ pc # "done"
     /\ pc = "exited" => exit.code # 0
     /\ \A f \in Families :
          (args[f] /\ MissingInput(args, f)) => f \notin Attempted

\* C2 witness: --lse without --gen-videos-dir (no --all) ended with the
\* missing-input message after another family had been attempted.
C2_Witness ==
  /\ ~args.all /\ args.lse /\ MissingInput(args, "lse")
  /\ pc = "exited"
  /\ exit = SystemExitMsg("--lse requires --gen-videos-dir")
  /\ Attempted # {}

\* C3 (as claimed): leaving uncaught exceptions aside, the exit status is
\* non-zero exactly when an input was missing or the frame-metric or FID
\* subprocess returned non-zero; failures of the frame-extraction and
\* setup steps do not make it non-zero.
C3_NonZeroExitOnlyForThreeCauses ==
  (Ended /\ exit.kind # "exception") =>
     (exit.code # 0 <=>
        \/ exit.kind = "config"
        \/ /\ calls # <<>>
           /\ LastCall.name \in {"eval_frame_metrics", "eval_fid"}
           /\ LastCall.ret # 0
           /\ exit.code = LastCall.ret)

\* C4 (as claimed): whatever the text, the value extracted for a metric is
\* a well-formed float or None; a matched but malformed token gives None
\* and nothing is raised.
C4_ParsedValueIsFloatOrNone ==
  probe.pc = "parsed" => probe.val.k \in {"float", "none"}

\* C5 (as claimed): when the NIQE subprocess returned non-zero and the run
\* went on, the niqe entry has ok = False and NIQE = None.
C5_FailedNiqeRecordedAbsent ==
  (pc = "extract_gt" /\ run.niqe /\ ret # 0) =>
     /\ "niqe" \in DOMAIN results
     /\ results["niqe"].ok = FALSE
     /\ results["niqe"].NIQE = None

\* C6 (as claimed): with --json-out, once the run has ended the file was
\* written by this run and its keys are exactly the attempted families.
C6_JsonWrittenAfterEveryRun ==
  (args.json_out /\ Ended) =>
     /\ json_file.state = "written"
     /\ DOMAIN json_file.content = Attempted

\* C6 (amended): with --json-out, a run that ends normally has written the
\* file with exactly the attempted families as keys (failed NIQE / LSE
\* included); a run that ends with a non-zero exit has not written it.
C6_JsonWrittenAfterNormalEnd ==
  args.json_out =>
     /\ pc = "done" => /\ json_file.state = "written"
                       /\ DOMAIN json_file.content = Attempted
     /\ pc # "done" => json_file.state # "written"

\* C6 witness: a normal end whose file has the key of a failed NIQE run
\* and lacks the key of a family that was not attempted.
C6_Witness ==
  /\ args.json_out
  /\ pc = "done"
  /\ json_file.state = "written"
  /\ "niqe" \in DOMAIN json_file.content
  /\ json_file.content["niqe"].ok = FALSE
  /\ "fid" \notin DOMAIN json_file.content

\* C7: when the frame-metric or the FID subprocess returns r # 0, it is the
\* last subprocess of the run and the process exits with code r.
C7_PrimaryFailureAborts ==
  \A i \in DOMAIN calls :
    (calls[i].name \in {"eval_frame_metrics", "eval_fid"} /\ calls[i].ret # 0)
      => /\ i = Len(calls)
         /\ pc = "exited"
         /\ exit = SystemExitCode(calls[i].ret)

\* C7 witness: FID failed with code MaxRet after NIQE had run, in a run
\* that had LSE selected; LSE never started.
C7_Witness ==
  /\ pc = "exited"
  /\ calls # <<>>
  /\ LastCall = Call("eval_fid", MaxRet)
  /\ exit.code = MaxRet
  /\ Invoked("eval_niqe")
  /\ run.lse
  /\ ~Invoked("eval_lse")

\* C8 (as claimed): when the frame-metric subprocess exits 0 and its stdout
\* contains `PSNR = 31.2` and `SSIM = 0.91` among other text, the Summary
\* Record has frame.PSNR = 31.2 and frame.SSIM = 0.91.
C8_FrameResultTextRecorded ==
  (/\ calls # <<>>
   /\ LastCall = Call("eval_frame_metrics", 0)
   /\ FrameHasResult[out]) =>
     /\ "frame" \in DOMAIN results
     /\ results["frame"].PSNR = Float(312, -1)
     /\ results["frame"].SSIM = Float(91, -2)

\* C9 (as claimed): after two successful _extract_frames invocations in a
\* row on the same directory, the directory holds only frames of the second.
DirOf(name) == IF name = "extract_frames:pred" THEN pred_dir ELSE gt_dir

FreshFrom(dir, name, consumer) ==
  \E i \in DOMAIN calls :
    /\ calls[i] = Call(name, 0)
    /\ \A j \in DOMAIN calls : calls[j].name = consumer => i < j
    /\ \A f \in 1..MaxFrames : dir[f] \in {NoFrame, i}
    /\ \E f \in 1..MaxFrames : dir[f] = i

LseRecorded == pc \in {"json", "done"} /\ "lse" \in DOMAIN results

C10_ScoresFileOnlyFallback ==
  /\ scores_read => scores_file.exists
  /\ LseRecorded =>
       LET so == [c |-> OutValue(PatLSE_C, out), d |-> OutValue(PatLSE_D, out)]
           fi == [c |-> FileValue(PatLSE_C, scores_file),
                  d |-> FileValue(PatLSE_D, scores_file)]
           e  == results["lse"]
       IN  /\ so.c # None => e.LSE_C = so.c
           /\ so.d # None => e.LSE_D = so.d
           /\ scores_read <=> ((so.c = None \/ so.d = None) /\ scores_file.exists)
           /\ so.c = None => e.LSE_C = (IF scores_file.exists THEN fi.c ELSE None)
           /\ so.d = None => e.LSE_D = (IF scores_file.exists THEN fi.d ELSE None)

\* C10 witness: stdout gave LSE-C only, the file has both: LSE-C is the
\* stdout value and LSE-D the file's.
C10_Witness ==
  /\ LseRecorded
  /\ out = LseOnlyC
  /\ scores_file = TextFile(ScoresBoth)
  /\ scores_read
  /\ results["lse"].LSE_C = Float(71, -1)
  /\ results["lse"].LSE_D = Float(92, -1)

TypeOK ==
  /\ args \in ArgsSpace
  /\ pc \in {"resolve", "frame", "extract_pred", "niqe", "extract_gt", "fid",
             "lse_setup", "lse", "json", "done", "exited", "lib", "harness"}
  /\ DOMAIN results \subseteq Families
  /\ ret \in {-1} \cup RetCodes

====
